---- MODULE Spec2Model ----
(***************************************************************************)
(* Verification model of makyno's task-orchestration core:                 *)
(*   - the feature store (lib/features: createFeature, listFeatures,       *)
(*     updateFeatureStatus, addLog, mockAgentWork), whose handlers are     *)
(*     async functions that read feature.json, change the parsed object    *)
(*     and write it back, with other handlers free to run at every await;  *)
(*   - the chat tools (file-tools, command-tools, feature-tools) and the   *)
(*     approval flow that dispatches them;                                 *)
(*   - run_command's mapping of a child process' outcome to its result.    *)
(***************************************************************************)
EXTENDS Integers, Sequences, FiniteSets, TLC

(* ------------------------------ bounds --------------------------------- *)
\* The wall clock (Date.now(), new Date()) takes the values 1..MaxClock.
MaxClock == 2
\* Handler invocations started in one behaviour.
MaxOps == 3
\* Handlers in flight at the same time.
NumProcs == 2
\* mockAgentWork invocations in flight at the same time.
MaxMocks == 1

(* ------------------------- feature store: data ------------------------- *)
\* An optional timestamp that is not set (JS undefined: !feature.startedAt).
Unset == 0

Times == 1..MaxClock

\* `feat-${Date.now()}`: an id is the clock value it was made from.
FeatureId(timestamp) == timestamp

Ids == {FeatureId(t) : t \in Times}

\* FeatureCard['status']
Statuses == {"backlog", "todo", "in_progress", "wait_approval", "done", "rejected"}

\* What a caller of the server function can send as data.status: the
\* inputValidator is the identity, so a value outside the union type passes.
StatusInputs == Statuses \cup {"archived"}

\* What a caller can send as { title, description }.
DataInputs == {[title |-> "A", description |-> "B"], [title |-> "B", description |-> "A"]}

\* No feature.json under this id (readFile rejects with ENOENT).
NoFeature == [id |-> Unset]

LogEntry(timestamp, message, type) ==
    [timestamp |-> timestamp, message |-> message, type |-> type]

\* The messages mockAgentWork logs through addLog, in order.
MockMessages ==
    << "Analyzing feature requirements...",
       "Created implementation plan with 3 tasks",
       "Creating feature branch...",
       "Implementing core functionality...",
       "Adding tests...",
       "Running tests and checks..." >>

MockSteps == Len(MockMessages)

\* The eight edges of the lifecycle: the seven the board's buttons request
\* and the agent's in_progress -> wait_approval (workflow step 9).
AllowedEdges ==
    { <<"backlog", "todo">>, <<"todo", "backlog">>, <<"todo", "in_progress">>,
      <<"in_progress", "todo">>, <<"in_progress", "wait_approval">>,
      <<"wait_approval", "done">>, <<"wait_approval", "rejected">>,
      <<"rejected", "todo">> }

VARIABLES
    now,      \* the wall clock
    store,    \* .makyno/features/<id>/feature.json, by id
    procs,    \* the handler invocations in flight
    ops,      \* handler invocations started so far
    last,     \* what the handler that finished last returned or threw
    acked,    \* history: per id, the log entries whose write has completed
    settled,  \* history: per id, the status set by the last completed status write
    file,     \* the project file the file tools are pointed at
    calls,    \* the session's tool calls, oldest first
    pending,  \* the input of the tool call being dispatched
    cmd,      \* the last run_command invocation: input, process, result
    session,  \* the agent loop of one chat request: round, phase, how it ended
    agents,   \* the agents following the implementation workflow, by agent
    git,      \* the repository, by feature id: its worktree, its branch, the merge
    moves,    \* status changes made on the board so far
    cancelled, \* history: the mockAgentWork runs in flight when their task was cancelled
    disk      \* history: how the file system treated the last record write

storeVars == <<now, store, procs, ops, last, acked, settled>>

gatewayVars == <<file, calls, pending>>

workVars == <<agents, git, moves>>

vars ==
    << now, store, procs, ops, last, acked, settled, file, calls, pending, cmd,
       session, agents, git, moves, cancelled, disk >>

(* ----------------------- feature store: functions ---------------------- *)
\* A record that takes the description for the title and starts in todo.
NewFeatureSwapped(id, data, t) ==
    [ id |-> id, title |-> data.description, description |-> data.title,
      status |-> "todo", createdAt |-> t,
      startedAt |-> Unset, implementedAt |-> Unset,
      completedAt |-> Unset, rejectedAt |-> Unset,
      logs |-> << LogEntry(t, "Feature created and added to backlog", "info") >>,
      metadata |-> FALSE ]

\* createFeature's record
NewFeature(id, data, t) ==
    [ id |-> id, title |-> data.title, description |-> data.description,
      status |-> "backlog", createdAt |-> t,
      startedAt |-> Unset, implementedAt |-> Unset,
      completedAt |-> Unset, rejectedAt |-> Unset,
      logs |-> << LogEntry(t, "Feature created and added to backlog", "info") >>,
      metadata |-> FALSE ]

\* feature.logs.push(...)
PushLog(feature, entry) == [feature EXCEPT !.logs = Append(@, entry)]

\* updateFeatureStatus, the five ifs after feature.status = data.status
StepBacklogTodo(f, old, status, t) ==
    IF status = "todo" /\ old = "backlog"
    THEN PushLog(f, LogEntry(t, "Moved from backlog to todo - ready to start", "info"))
    ELSE f

StepStarted(f, status, t) ==
    IF status = "in_progress" /\ f.startedAt = Unset
    THEN PushLog([f EXCEPT !.startedAt = t],
                 LogEntry(t, "AI agent started working on this feature", "info"))
    ELSE f

\* A wait_approval branch that logs and leaves implementedAt alone.
StepImplementedLogOnly(f, status, t) ==
    IF status = "wait_approval" /\ f.implementedAt = Unset
    THEN PushLog(f, LogEntry(t, "Implementation complete - waiting for approval", "success"))
    ELSE f

StepImplemented(f, status, t) ==
    IF status = "wait_approval" /\ f.implementedAt = Unset
    THEN PushLog([f EXCEPT !.implementedAt = t],
                 LogEntry(t, "Implementation complete - waiting for approval", "success"))
    ELSE f

StepCompleted(f, status, t) ==
    IF status = "done" /\ f.completedAt = Unset
    THEN PushLog([f EXCEPT !.completedAt = t],
                 LogEntry(t, "Feature approved and merged to main branch", "success"))
    ELSE f

StepRejected(f, status, t) ==
    IF status = "rejected" /\ f.rejectedAt = Unset
    THEN PushLog([f EXCEPT !.rejectedAt = t],
                 LogEntry(t, "Feature rejected - needs revision", "error"))
    ELSE f

\* The record updateFeatureStatus writes back, from the record it read.
ApplyStatus(feature, status, t) ==
    LET old == feature.status
        f0  == [feature EXCEPT !.status = status]
    IN  StepRejected(
          StepCompleted(
            StepImplemented(
              StepStarted(
                StepBacklogTodo(f0, old, status, t), status, t), status, t), status, t),
          status, t)

\* The record addLog writes back, from the record it read.
WithLog(feature, message, type, t) == PushLog(feature, LogEntry(t, message, type))

\* The record mockAgentWork's last write stores, from the record it read.
MockFinish(feature, t) ==
    PushLog([feature EXCEPT !.status = "wait_approval",
                            !.implementedAt = t,
                            !.metadata = TRUE],
            LogEntry(t, "Implementation complete! Created 3 commits, modified 2 files. Ready for review.", "success"))

\* listFeatures: the parsed records of every feature directory (the order,
\* newest first, is left out: nothing here reads it).
ListFeatures(s) == {s[i] : i \in {j \in Ids : s[j] # NoFeature}}


\* A read that makes up a record for an id that has none.
LoadFeatureUpsert(s, id) ==
    IF s[id] = NoFeature
    THEN NewFeature(id, [title |-> "A", description |-> "B"], 1)
    ELSE s[id]

\* fs.readFile + JSON.parse of feature.json: the record, or NoFeature when
\* the file does not exist and the read rejects.
LoadFeature(s, id) == s[id]

(* ----------------------- feature store: handlers ----------------------- *)
\* The input of a handler that takes no title and description.
NoData == [title |-> "", description |-> ""]

\* An invocation slot with no handler running in it.
Idle ==
    [ op |-> "none", pc |-> "idle", id |-> Unset, status |-> "none",
      step |-> 0, feature |-> NoFeature, base |-> 0, old |-> "none",
      data |-> NoData ]

Procs == 1..NumProcs

NoResult == [ op |-> "none", outcome |-> "none", id |-> Unset ]

\* How a handler ended: it returned ("ok") or threw (the error).
Result(op, outcome, id) == [ op |-> op, outcome |-> outcome, id |-> id ]

\* The slot a new invocation takes: the first free one (slots are
\* interchangeable).
FreeSlot(p) == procs[p] = Idle /\ \A q \in Procs : q < p => procs[q] # Idle

\* The log entries a handler pushed onto the record it read.
Pushed(pr) == {pr.feature.logs[i] : i \in (pr.base + 1)..Len(pr.feature.logs)}

StoreInit ==
    /\ now = 1
    /\ store = [i \in Ids |-> NoFeature]
    /\ procs = [p \in Procs |-> Idle]
    /\ ops = 0
    /\ last = NoResult
    /\ acked = [i \in Ids |-> {}]
    /\ settled = [i \in Ids |-> "none"]
    /\ cancelled = {}

\* Time passes.
Tick ==
    /\ now < MaxClock
    /\ now' = now + 1
    /\ UNCHANGED <<store, procs, ops, last, acked, settled>>

\* createFeature up to its awaits: the id and the record are made from the
\* clock, then the directory and the file are written.
CreateStart(p, data) ==
    /\ FreeSlot(p)
    /\ ops < MaxOps
    /\ ops' = ops + 1
    /\ procs' = [procs EXCEPT ![p] =
                   [Idle EXCEPT !.op = "create", !.pc = "write",
                                !.id = FeatureId(now), !.data = data,
                                !.feature = NewFeature(FeatureId(now), data, now)]]
    /\ UNCHANGED <<now, store, last, acked, settled>>

\* createFeature: fs.writeFile(featurePath, ...) and return feature.
CreateWrite(p) ==
    LET pr == procs[p] IN
    /\ pr.op = "create" /\ pr.pc = "write"
    /\ store' = [store EXCEPT ![pr.id] = pr.feature]
    /\ acked' = [acked EXCEPT ![pr.id] = Pushed(pr)]
    /\ settled' = [settled EXCEPT ![pr.id] = pr.feature.status]
    /\ last' = Result("create", "ok", pr.id)
    /\ procs' = [procs EXCEPT ![p] = Idle]
    /\ UNCHANGED <<now, ops>>

\* updateFeatureStatus: readFile (ENOENT rejects the call), then the
\* synchronous block that sets the status, the timestamps and the log.
UpdateRead(p, id, status) ==
    LET f == LoadFeature(store, id) IN
    /\ FreeSlot(p)
    /\ ops < MaxOps
    /\ ops' = ops + 1
    /\ IF f = NoFeature
       THEN /\ last' = Result("update", "ENOENT", id)
            /\ procs' = procs
       ELSE /\ procs' = [procs EXCEPT ![p] =
                           [Idle EXCEPT !.op = "update", !.pc = "write", !.id = id,
                                        !.status = status, !.old = f.status,
                                        !.base = Len(f.logs),
                                        !.feature = ApplyStatus(f, status, now)]]
            /\ last' = last
    /\ UNCHANGED <<now, store, acked, settled>>

\* updateFeatureStatus: fs.writeFile(featurePath, ...) and return feature.
UpdateWrite(p) ==
    LET pr == procs[p] IN
    /\ pr.op = "update" /\ pr.pc = "write"
    /\ store' = [store EXCEPT ![pr.id] = pr.feature]
    /\ acked' = [acked EXCEPT ![pr.id] = @ \cup Pushed(pr)]
    /\ settled' = [settled EXCEPT ![pr.id] = pr.feature.status]
    /\ last' = Result("update", "ok", pr.id)
    /\ procs' = [procs EXCEPT ![p] = Idle]
    /\ UNCHANGED <<now, ops>>

\* mockAgentWork: its first addLog reads the record. When the file is
\* missing the read rejects, the catch block's addLog rejects the same way
\* and the call fails.
MockStart(p, id) ==
    LET f == LoadFeature(store, id) IN
    /\ FreeSlot(p)
    /\ Cardinality({q \in Procs : procs[q].op = "mock"}) < MaxMocks
    /\ ops < MaxOps
    /\ ops' = ops + 1
    /\ IF f = NoFeature
       THEN /\ last' = Result("mock", "ENOENT", id)
            /\ procs' = procs
       ELSE /\ procs' = [procs EXCEPT ![p] =
                           [Idle EXCEPT !.op = "mock", !.pc = "log_write", !.id = id,
                                        !.step = 1, !.base = Len(f.logs),
                                        !.feature = WithLog(f, MockMessages[1], "info", now)]]
            /\ last' = last
    /\ UNCHANGED <<now, store, acked, settled>>

\* addLog: fs.writeFile(featurePath, ...); then the timer, then the next step.
MockLogWrite(p) ==
    LET pr == procs[p] IN
    /\ pr.op = "mock" /\ pr.pc = "log_write"
    /\ store' = [store EXCEPT ![pr.id] = pr.feature]
    /\ acked' = [acked EXCEPT ![pr.id] = @ \cup Pushed(pr)]
    /\ procs' = [procs EXCEPT ![p] =
                   [pr EXCEPT !.pc = IF pr.step < MockSteps THEN "log_read" ELSE "final_read",
                              !.feature = NoFeature, !.base = 0]]
    /\ UNCHANGED <<now, ops, last, settled>>

\* addLog: readFile, JSON.parse, feature.logs.push(log).
MockLogRead(p) ==
    LET pr == procs[p]
        f  == LoadFeature(store, pr.id)
    IN
    /\ pr.op = "mock" /\ pr.pc = "log_read"
    /\ procs' = [procs EXCEPT ![p] =
                   [pr EXCEPT !.pc = "log_write", !.step = pr.step + 1,
                              !.base = Len(f.logs),
                              !.feature = WithLog(f, MockMessages[pr.step + 1], "info", now)]]
    /\ UNCHANGED <<now, store, ops, last, acked, settled>>

\* mockAgentWork: the read before "Update feature to wait_approval" and the
\* assignments that follow it.
MockFinalRead(p) ==
    LET pr == procs[p]
        f  == LoadFeature(store, pr.id)
    IN
    /\ pr.op = "mock" /\ pr.pc = "final_read"
    /\ procs' = [procs EXCEPT ![p] =
                   [pr EXCEPT !.pc = "final_write", !.old = f.status,
                              !.base = Len(f.logs),
                              !.feature = MockFinish(f, now)]]
    /\ UNCHANGED <<now, store, ops, last, acked, settled>>

\* mockAgentWork: the last fs.writeFile and return feature.
MockFinalWrite(p) ==
    LET pr == procs[p] IN
    /\ pr.op = "mock" /\ pr.pc = "final_write"
    /\ store' = [store EXCEPT ![pr.id] = pr.feature]
    /\ acked' = [acked EXCEPT ![pr.id] = @ \cup Pushed(pr)]
    /\ settled' = [settled EXCEPT ![pr.id] = pr.feature.status]
    /\ last' = Result("mock", "ok", pr.id)
    /\ procs' = [procs EXCEPT ![p] = Idle]
    /\ UNCHANGED <<now, ops>>

\* update_feature_status tool: listFeatures, find by id, throw when absent,
\* remember oldStatus.
ToolUpdateList(p, id, status) ==
    /\ FreeSlot(p)
    /\ ops < MaxOps
    /\ ops' = ops + 1
    /\ IF \E f \in ListFeatures(store) : f.id = id
       THEN /\ procs' = [procs EXCEPT ![p] =
                           [Idle EXCEPT !.op = "tool_update", !.pc = "read", !.id = id,
                                        !.status = status,
                                        !.old = (CHOOSE f \in ListFeatures(store) : f.id = id).status]]
            /\ last' = last
       ELSE /\ last' = Result("tool_update", "not_found", id)
            /\ procs' = procs
    /\ UNCHANGED <<now, store, acked, settled>>

\* update_feature_status tool: the updateFeatureStatus call, its read.
ToolUpdateRead(p) ==
    LET pr == procs[p]
        f  == LoadFeature(store, pr.id)
    IN
    /\ pr.op = "tool_update" /\ pr.pc = "read"
    /\ IF f = NoFeature
       THEN /\ last' = Result("tool_update", "ENOENT", pr.id)
            /\ procs' = [procs EXCEPT ![p] = Idle]
       ELSE /\ procs' = [procs EXCEPT ![p] =
                           [pr EXCEPT !.pc = "write", !.base = Len(f.logs),
                                      !.feature = ApplyStatus(f, pr.status, now)]]
            /\ last' = last
    /\ UNCHANGED <<now, store, ops, acked, settled>>

\* update_feature_status tool: updateFeatureStatus' write, then the tool's
\* result { oldStatus, newStatus: updatedFeature.status }.
ToolUpdateWrite(p) ==
    LET pr == procs[p] IN
    /\ pr.op = "tool_update" /\ pr.pc = "write"
    /\ store' = [store EXCEPT ![pr.id] = pr.feature]
    /\ acked' = [acked EXCEPT ![pr.id] = @ \cup Pushed(pr)]
    /\ settled' = [settled EXCEPT ![pr.id] = pr.feature.status]
    /\ last' = Result("tool_update", "ok", pr.id)
    /\ procs' = [procs EXCEPT ![p] = Idle]
    /\ UNCHANGED <<now, ops>>

(* ------------------------- chat tools: data ---------------------------- *)
\* Calls one session makes.
MaxCalls == 3
\* Longest text a tool call carries as content, oldContent or newContent.
MaxLen == 2

\* Text is a sequence of characters; "$" is the character that starts a
\* replacement pattern of String.prototype.replace.
Alphabet == {"a", "b", "$"}

Texts == UNION {[1..n -> Alphabet] : n \in 0..MaxLen}

\* The tools the chat route registers.
ToolNames ==
    { "list_features", "create_feature", "update_feature_status",
      "read_file", "write_file", "edit_file", "list_files", "search_code",
      "run_command" }

\* A registration that gates nothing.
NeedsApprovalNever(tool) == FALSE

\* The needsApproval flag a tool is defined with (absent: not gated).
NeedsApproval(tool) == tool \in {"write_file", "edit_file"}

NoFile == [exists |-> FALSE, content |-> <<>>]

NoInput == [content |-> <<>>, oldContent |-> <<>>, newContent |-> <<>>, pattern |-> <<>>]

\* search_code's pattern, as the pieces the shell tells apart: a plain
\* character, a double quote, a command separator, the two ends of a command
\* substitution, and the command word of an rm -rf of the project file.
MaxPattern == 3

ShellChars == {"a", "\"", ";", "$(", ")", "rm"}

Patterns == UNION {[1..n -> ShellChars] : n \in 0..MaxPattern}

\* What the model can send as a tool's input (the fields the tool reads).
ToolInputs(tool) ==
    CASE tool = "write_file" -> {[NoInput EXCEPT !.content = c] : c \in Texts}
      [] tool = "edit_file"  ->
           {[NoInput EXCEPT !.oldContent = o, !.newContent = n] : o \in Texts, n \in Texts}
      [] tool = "search_code" -> {[NoInput EXCEPT !.pattern = p] : p \in Patterns}
      [] OTHER -> {NoInput}

(* ------------------------ chat tools: functions ------------------------ *)
\* currentContent.includes(oldContent), at position i (1-based)
OccursAt(text, sub, i) ==
    /\ i >= 1
    /\ i + Len(sub) - 1 <= Len(text)
    /\ SubSeq(text, i, i + Len(sub) - 1) = sub

Includes(text, sub) == \E i \in 1..(Len(text) + 1) : OccursAt(text, sub, i)

\* The first position at which sub occurs in text.
IndexOf(text, sub) ==
    CHOOSE i \in 1..(Len(text) + 1) :
       /\ OccursAt(text, sub, i)
       /\ \A j \in 1..(i - 1) : ~OccursAt(text, sub, j)

\* The text replace() substitutes for a replacement string: "$$" stands for
\* one "$".  (The other patterns, "$&", "$`", "$'" and "$n", need a character
\* Alphabet does not have; a "$" before any other character stands for
\* itself.)
RECURSIVE Expand(_)
Expand(new) ==
    IF new = <<>>
    THEN <<>>
    ELSE IF Len(new) >= 2 /\ new[1] = "$" /\ new[2] = "$"
    THEN <<"$">> \o Expand(SubSeq(new, 3, Len(new)))
    ELSE <<new[1]>> \o Expand(Tail(new))

\* currentContent.replace(oldContent, newContent), string pattern: the first
\* occurrence only, replaced by the expansion of newContent.
ReplaceFirst(text, sub, new) ==
    IF ~Includes(text, sub)
    THEN text
    ELSE LET i == IndexOf(text, sub)
         IN  SubSeq(text, 1, i - 1) \o Expand(new) \o SubSeq(text, i + Len(sub), Len(text))

\* (currentContent.match(new RegExp(escaped oldContent, "g")) || []).length:
\* the matches of the literal pattern, found left to right without overlap;
\* the empty pattern matches at every position, the end included.
RECURSIVE CountMatches(_, _)
CountMatches(text, sub) ==
    IF sub = <<>>
    THEN Len(text) + 1
    ELSE IF ~Includes(text, sub)
    THEN 0
    ELSE 1 + CountMatches(SubSeq(text, IndexOf(text, sub) + Len(sub), Len(text)), sub)

\* What a server function hands back when it does not return a value of
\* its own: no error, no count, no content.
Outcome(f, result, error) ==
    [file |-> f, result |-> result, error |-> error, replacements |-> 0, content |-> <<>>]

\* write_file's server function: the file after the call and how it ended.
WriteFile(f, input) ==
    Outcome([exists |-> TRUE, content |-> input.content], "ok", "")

\* edit_file's server function: readFile throws on a missing file, the
\* includes() check throws "Content not found", else the replaced text is
\* written back.
\* An edit that skips the includes() check.
EditFileUnchecked(f, input) ==
    IF ~f.exists
    THEN Outcome(f, "error", "ENOENT")
    ELSE [ Outcome([exists |-> TRUE,
                    content |-> ReplaceFirst(f.content, input.oldContent, input.newContent)],
                   "ok", "")
             EXCEPT !.replacements = CountMatches(f.content, input.oldContent) ]

EditFile(f, input) ==
    IF ~f.exists
    THEN Outcome(f, "error", "ENOENT")
    ELSE IF ~Includes(f.content, input.oldContent)
    THEN Outcome(f, "error", "Content not found")
    ELSE [ Outcome([exists |-> TRUE,
                    content |-> ReplaceFirst(f.content, input.oldContent, input.newContent)],
                   "ok", "")
             EXCEPT !.replacements = CountMatches(f.content, input.oldContent) ]

\* read_file's server function.
\* A read that answers for a missing file with empty content.
ReadFileLenient(f, input) ==
    [Outcome(f, "ok", "") EXCEPT !.content = f.content]

ReadFile(f, input) ==
    IF f.exists
    THEN [Outcome(f, "ok", "") EXCEPT !.content = f.content]
    ELSE Outcome(f, "error", "ENOENT")

\* `grep -rn "${pattern}" --include="${filePattern}" . | head -n ${maxResults}`
\* with the default filePattern and maxResults.
GrepCommandLine(pattern) ==
    <<"grep -rn ", "\"">> \o pattern
        \o <<"\"", " --include=", "\"", "**/*.{ts,tsx,js,jsx}", "\"", " . | head -n ", "20">>

\* /bin/sh reading a command line from piece i on. quoted: inside double
\* quotes; subst: inside a command substitution; head: the next word is a
\* command's name; removes: an rm has been read as a command's name. A line
\* that ends inside quotes or a substitution, or closes a substitution it
\* never opened, is a syntax error and none of it runs.
RECURSIVE ShellRemoves(_, _, _, _, _, _)
ShellRemoves(line, i, quoted, subst, head, removes) ==
    IF i > Len(line)
    THEN ~quoted /\ ~subst /\ removes
    ELSE LET c    == line[i]
             live == subst \/ ~quoted
         IN
         IF c = "$("
         THEN ShellRemoves(line, i + 1, quoted, TRUE, TRUE, removes)
         ELSE IF c = ")" /\ subst
         THEN ShellRemoves(line, i + 1, quoted, FALSE, FALSE, removes)
         ELSE IF c = ")" /\ ~quoted
         THEN FALSE
         ELSE IF c = "\"" /\ ~subst
         THEN ShellRemoves(line, i + 1, ~quoted, subst, head, removes)
         ELSE IF c = ";" /\ live
         THEN ShellRemoves(line, i + 1, quoted, subst, TRUE, removes)
         ELSE IF c = "rm" /\ head /\ live
         THEN ShellRemoves(line, i + 1, quoted, subst, FALSE, TRUE)
         ELSE ShellRemoves(line, i + 1, quoted, subst, head /\ ~live, removes)

\* search_code's server function: execSync runs the command line in a
\* shell; a failure is caught and answered with no matches.
SearchCode(f, input) ==
    IF ShellRemoves(GrepCommandLine(input.pattern), 1, FALSE, FALSE, TRUE, FALSE)
    THEN Outcome(NoFile, "ok", "")
    ELSE Outcome(f, "ok", "")

\* The server function of a tool, as far as the project file goes.
RunTool(tool, f, input) ==
    CASE tool = "write_file" -> WriteFile(f, input)
      [] tool = "edit_file"  -> EditFile(f, input)
      [] tool = "read_file"  -> ReadFile(f, input)
      [] tool = "search_code" -> SearchCode(f, input)
      [] OTHER -> Outcome(f, "ok", "")

(* ------------------------ chat tools: dispatch ------------------------- *)
\* A tool call: approval is "none" (never asked), "requested", "approved"
\* or "denied"; ran says that the tool's server function was invoked;
\* result is "none" until the call ends, then "ok", "error" (with the
\* error's message) or "denied"; replacements and content are what edit_file
\* and read_file return.
Call(tool, approval) ==
    [ tool |-> tool, approval |-> approval, ran |-> FALSE, result |-> "none",
      error |-> "", replacements |-> 0, content |-> <<>> ]

GatewayInit ==
    /\ file = NoFile
    /\ calls = <<>>
    /\ pending = NoInput

\* The call being dispatched, if any, is the newest one.
Active == Len(calls) > 0 /\ calls[Len(calls)].result = "none"

\* The reasoning step asks for a tool: a gated tool's call waits for its
\* approval, any other call is ready to run.
RequestTool(tool, input) ==
    /\ ~Active
    /\ Len(calls) < MaxCalls
    /\ calls' = Append(calls, Call(tool, IF NeedsApproval(tool) THEN "requested" ELSE "none"))
    /\ pending' = input
    /\ UNCHANGED file

\* The Approve / Deny buttons: addToolApprovalResponse({ id, approved }),
\* offered while the call has an approval to answer.
RespondApproval(approved) ==
    /\ Active
    /\ calls[Len(calls)].approval = "requested"
    /\ calls' = [calls EXCEPT ![Len(calls)].approval =
                   IF approved THEN "approved" ELSE "denied"]
    /\ UNCHANGED <<file, pending>>

\* The tool's server function runs: at once for a tool that is not gated,
\* after approved=true for a gated one.
ExecuteTool ==
    LET c   == calls[Len(calls)]
        out == RunTool(c.tool, file, pending)
    IN
    /\ Active
    /\ c.approval \in {"none", "approved"}
    /\ file' = out.file
    /\ calls' = [calls EXCEPT ![Len(calls)] =
                   [c EXCEPT !.ran = TRUE, !.result = out.result, !.error = out.error,
                             !.replacements = out.replacements, !.content = out.content]]
    /\ pending' = NoInput

\* approved=false: the call ends with a denial result and the tool is not run.
DenyTool ==
    /\ Active
    /\ calls[Len(calls)].approval = "denied"
    /\ calls' = [calls EXCEPT ![Len(calls)].result = "denied"]
    /\ pending' = NoInput
    /\ UNCHANGED file

(* --------------------------- run_command ------------------------------- *)
\* timeout = 60000, the default of the server function's parameter
DefaultTimeout == 60000

\* maxBuffer: 1024 * 1024 * 10
MaxBuffer == 1024 * 1024 * 10

\* Output is a sequence of characters; " " stands for any white space.
OutputChars == {"x", " "}

\* Longest stdout or stderr a modelled process writes (before any overflow).
MaxOut == 2

Outputs == UNION {[1..n -> OutputChars] : n \in 0..MaxOut}

\* String.prototype.trim(): white space off both ends.
RECURSIVE TrimLeft(_)
TrimLeft(text) ==
    IF text # <<>> /\ Head(text) = " " THEN TrimLeft(Tail(text)) ELSE text

RECURSIVE TrimRight(_)
TrimRight(text) ==
    IF text # <<>> /\ text[Len(text)] = " "
    THEN TrimRight(SubSeq(text, 1, Len(text) - 1))
    ELSE text

Trim(text) == TrimRight(TrimLeft(text))

\* error.code: a number (the exit code), a string (a system or Node error
\* code) or null (the child was killed by a signal).
NumCode(n) == [tag |-> "num", num |-> n, str |-> ""]

StrCode(c) == [tag |-> "str", num |-> 0, str |-> c]

NullCode == [tag |-> "null", num |-> 0, str |-> ""]

\* JS truthiness of error.code
Truthy(code) ==
    \/ code.tag = "num" /\ code.num # 0
    \/ code.tag = "str" /\ code.str # ""

\* A path is its sequence of segments; an absolute path starts with "/".
\* process.cwd(): the project root the server runs in.
ProcessCwd == <<"/", "project">>

\* The worktree the workflow gives a feature: .worktrees/feat-{featureId}
SandboxRoot == ProcessCwd \o <<".worktrees", "feat-1">>

\* A path with its ".." segments resolved (the root has no parent).
RECURSIVE Normalize(_)
Normalize(path) ==
    IF path = <<>>
    THEN <<>>
    ELSE LET front == Normalize(SubSeq(path, 1, Len(path) - 1))
             seg   == path[Len(path)]
         IN  IF seg # ".."
             THEN Append(front, seg)
             ELSE IF Len(front) > 1
             THEN SubSeq(front, 1, Len(front) - 1)
             ELSE front

\* The directory the child process is started in for the cwd option dir: a
\* relative cwd is resolved against the server's own working directory.
Resolve(base, dir) ==
    IF dir # <<>> /\ dir[1] = "/" THEN Normalize(dir) ELSE Normalize(base \o dir)

\* What the tool is called with.  workingDir <<>> (the empty string) and
\* timeout Unset are the omitted optional fields.
WorkingDirs ==
    { <<>>, <<".worktrees", "feat-1">>, <<"/", "etc">>, <<"..", "outside">> }

TimeoutInputs == {Unset, 1000}

CommandInputs ==
    [command : {"cmd"}, workingDir : WorkingDirs, timeout : TimeoutInputs]

\* What the child process does if left alone: whether it can be spawned at
\* all (the cwd exists, a shell is found), how long it runs (ms), what it
\* writes, how many bytes that is, and its exit code.
Processes ==
    [ spawns : BOOLEAN, runtime : {1, 999, 59999, 90000}, exitCode : 0..2,
      stdout : Outputs, stderr : Outputs, bytes : {1, MaxBuffer + 1} ]

\* Milliseconds between the child's end and the Date.now() that measures it.
Lags == {0, 1}

\* cwd: workingDir || process.cwd()
Cwd(input) == IF input.workingDir = <<>> THEN ProcessCwd ELSE input.workingDir

\* timeout = 60000 applies when the field is omitted.
EffectiveTimeout(input) == IF input.timeout = Unset THEN DefaultTimeout ELSE input.timeout

\* The child outlives the timeout and exec kills it (SIGTERM).
TimesOut(pr, input) ==
    pr.spawns /\ pr.bytes <= MaxBuffer /\ pr.runtime > EffectiveTimeout(input)

\* The child runs to its own exit.
Exits(pr, input) ==
    pr.spawns /\ pr.bytes <= MaxBuffer /\ pr.runtime <= EffectiveTimeout(input)

\* `Command failed: ${cmd}\n${stderr}`
FailedMessage(input, stderr) == <<"Command failed: ", input.command, "\n">> \o stderr

\* execAsync(command, { cwd, timeout, maxBuffer }): how the promise settles
\* and when (ms after the call).
ExecAsync(input, pr) ==
    IF ~pr.spawns
    THEN [ ok |-> FALSE, at |-> 0, code |-> StrCode("ENOENT"), killed |-> FALSE,
           stdout |-> <<>>, stderr |-> <<>>, message |-> <<"spawn /bin/sh ENOENT">> ]
    ELSE IF pr.bytes > MaxBuffer
    THEN [ ok |-> FALSE, at |-> 1,
           code |-> StrCode("ERR_CHILD_PROCESS_STDIO_MAXBUFFER"), killed |-> TRUE,
           stdout |-> pr.stdout, stderr |-> pr.stderr,
           message |-> <<"stdout maxBuffer length exceeded">> ]
    ELSE IF pr.runtime > EffectiveTimeout(input)
    THEN [ ok |-> FALSE, at |-> EffectiveTimeout(input), code |-> NullCode,
           killed |-> TRUE, stdout |-> pr.stdout, stderr |-> pr.stderr,
           message |-> FailedMessage(input, pr.stderr) ]
    ELSE IF pr.exitCode # 0
    THEN [ ok |-> FALSE, at |-> pr.runtime, code |-> NumCode(pr.exitCode),
           killed |-> FALSE, stdout |-> pr.stdout, stderr |-> pr.stderr,
           message |-> FailedMessage(input, pr.stderr) ]
    ELSE [ ok |-> TRUE, at |-> pr.runtime, code |-> NumCode(0), killed |-> FALSE,
           stdout |-> pr.stdout, stderr |-> pr.stderr, message |-> <<>> ]

\* A catch block that reports every failure as exit code 1.
CatchResultCodeOne(input, error, duration) ==
    [ threw |-> FALSE, success |-> FALSE,
      stdout |-> Trim(error.stdout),
      stderr |-> IF Trim(error.stderr) # <<>> THEN Trim(error.stderr) ELSE error.message,
      exitCode |-> NumCode(1),
      command |-> input.command, duration |-> duration ]

\* The catch block's return value.
CatchResult(input, error, duration) ==
    [ threw |-> FALSE, success |-> FALSE,
      stdout |-> Trim(error.stdout),
      stderr |-> IF Trim(error.stderr) # <<>> THEN Trim(error.stderr) ELSE error.message,
      exitCode |-> IF Truthy(error.code) THEN error.code ELSE NumCode(1),
      command |-> input.command, duration |-> duration ]

\* The try block's return value.
TryResult(input, out, duration) ==
    [ threw |-> FALSE, success |-> TRUE,
      stdout |-> Trim(out.stdout), stderr |-> Trim(out.stderr),
      exitCode |-> NumCode(0),
      command |-> input.command, duration |-> duration ]

\* run_command's server function.
RunCommandResult(input, pr, lag) ==
    LET outcome  == ExecAsync(input, pr)
        duration == outcome.at + lag
    IN  IF outcome.ok
        THEN TryResult(input, outcome, duration)
        ELSE CatchResult(input, outcome, duration)

NoCmd == [ran |-> FALSE]

CmdInit == cmd = NoCmd

\* One run_command invocation, from the call to the returned result
\* (invocations share no state: one per behaviour shows them all).
RunCommand(input, pr, lag) ==
    /\ cmd = NoCmd
    /\ cmd' = [ ran |-> TRUE, input |-> input, process |-> pr, cwd |-> Cwd(input),
             result |-> RunCommandResult(input, pr, lag) ]

(* ---------------------------- agent loop ------------------------------- *)
\* agentLoopStrategy: maxIterations(50)
MaxIterations == 50

\* The loop of one chat request: round counts the rounds of tool calls
\* started; phase is "reasoning" (the model is asked), "tools" (the round's
\* calls are dispatched) or "ended"; outcome says how it ended; streamError
\* says that the response stream carried an error; shown is what the chat
\* panel tells the operator.
SessionInit ==
    session = [ round |-> 0, phase |-> "reasoning", outcome |-> "none",
                streamError |-> FALSE, shown |-> "streaming" ]

\* const status = isLoading ? "streaming" : "ready": the panel reads
\* messages and isLoading from useChat, and not its error.
Shown(isLoading, streamError) == IF isLoading THEN "streaming" ELSE "ready"

\* The reasoning step answers with terminal text: the loop ends.
ReasonText ==
    /\ session.phase = "reasoning"
    /\ session' = [session EXCEPT !.phase = "ended", !.outcome = "text",
                                  !.shown = Shown(FALSE, FALSE)]

\* The reasoning step asks for tool calls and the strategy lets the round
\* start.
ReasonToolCalls ==
    /\ session.phase = "reasoning"
    /\ session.round < MaxIterations
    /\ session' = [session EXCEPT !.phase = "tools", !.round = @ + 1]

\* The round's tool results are folded into the history.
ToolsDone ==
    /\ session.phase = "tools"
    /\ session' = [session EXCEPT !.phase = "reasoning"]

\* The reasoning step asks for tool calls at the ceiling: the strategy
\* stops the loop.  Whether the stream then ends plainly or with an error is
\* the library's; the panel shows the same either way.
CeilingStop(streamError) ==
    /\ session.phase = "reasoning"
    /\ session.round = MaxIterations
    /\ session' = [session EXCEPT !.phase = "ended", !.outcome = "ceiling",
                                  !.streamError = streamError,
                                  !.shown = Shown(FALSE, streamError)]

(* ----------------------- implementation workflow ----------------------- *)
\* Agents that are asked to implement a feature.
NumAgents == 2
\* Status changes the operator makes on the board.
MaxMoves == 3

Agents == 1..NumAgents

\* git's exit code for a command it refuses ("fatal: ...").
GitFatal == 128

NoGit == [worktree |-> FALSE, branch |-> FALSE, merged |-> FALSE]

NoCommand == [success |-> TRUE, exitCode |-> 0]

\* An agent: where it is in the workflow, the feature it implements and
\* what its last run_command returned.
IdleAgent == [pc |-> "idle", id |-> Unset, result |-> NoCommand]

WorkInit ==
    /\ agents = [a \in Agents |-> IdleAgent]
    /\ git = [i \in Ids |-> NoGit]
    /\ moves = 0

\* What run_command returns for a git command that exits with exitCode: the
\* command runs in no time, prints nothing and is not gated.
GitCommand(exitCode) ==
    LET r == RunCommandResult(
                [command |-> "cmd", workingDir |-> <<>>, timeout |-> Unset],
                [spawns |-> TRUE, runtime |-> 1, exitCode |-> exitCode,
                 stdout |-> <<>>, stderr |-> <<>>, bytes |-> 1], 0)
    IN  [success |-> r.success, exitCode |-> r.exitCode.num]

\* The agent a goes from step pc to step next with the result of its
\* command.
AgentStep(a, pc, next, exitCode) ==
    /\ agents[a].pc = pc
    /\ agents' = [agents EXCEPT ![a].pc = next, ![a].result = GitCommand(exitCode)]

\* createFeature, start to end.
WorkCreate(data) ==
    /\ store[FeatureId(now)] = NoFeature
    /\ store' = [store EXCEPT ![FeatureId(now)] = NewFeature(FeatureId(now), data, now)]
    /\ UNCHANGED <<now, procs, ops, last, acked, settled, workVars>>

\* A column without the handler (onMoveNext / onMovePrev undefined).
NoMove == "none"

\* The columns of the board: the status whose cards a column shows and the
\* status its two buttons pass to onUpdateStatus.
Columns ==
    { [ status |-> "backlog",       onMoveNext |-> "todo",        onMovePrev |-> NoMove ],
      [ status |-> "todo",          onMoveNext |-> "in_progress", onMovePrev |-> "backlog" ],
      [ status |-> "in_progress",   onMoveNext |-> NoMove,        onMovePrev |-> "todo" ],
      [ status |-> "wait_approval", onMoveNext |-> "done",        onMovePrev |-> "rejected" ],
      [ status |-> "done",          onMoveNext |-> NoMove,        onMovePrev |-> NoMove ],
      [ status |-> "rejected",      onMoveNext |-> "todo",        onMovePrev |-> NoMove ] }

\* A board whose Done column has a button that reopens the card.
BoardButtonsWithReopen ==
    { <<c.status, c.onMoveNext>> : c \in { d \in Columns : d.onMoveNext # NoMove } }
        \cup { <<c.status, c.onMovePrev>> : c \in { d \in Columns : d.onMovePrev # NoMove } }
        \cup { <<"done", "todo">> }

\* The (column status, target status) pairs of the buttons the cards render
\* (a button is rendered when its handler is defined).
BoardButtons ==
    { <<c.status, c.onMoveNext>> : c \in { d \in Columns : d.onMoveNext # NoMove } }
        \cup { <<c.status, c.onMovePrev>> : c \in { d \in Columns : d.onMovePrev # NoMove } }

\* A button of the board: updateFeatureStatus, start to end, with the status
\* the button of the card's column passes.
BoardMove(id, status) ==
    /\ moves < MaxMoves
    /\ store[id] # NoFeature
    /\ <<store[id].status, status>> \in BoardButtons
    /\ store' = [store EXCEPT ![id] = ApplyStatus(store[id], status, now)]
    /\ moves' = moves + 1
    /\ UNCHANGED <<now, procs, ops, last, acked, settled, agents, git>>

\* 1. Update feature status to "in_progress" (update_feature_status runs
\* unasked and checks no edge).
AgentStart(a, id) ==
    /\ agents[a].pc = "idle"
    /\ store[id] # NoFeature
    /\ store' = [store EXCEPT ![id] = ApplyStatus(store[id], "in_progress", now)]
    /\ agents' = [agents EXCEPT ![a].pc = "add", ![a].id = id]
    /\ UNCHANGED <<now, procs, ops, last, acked, settled, git, moves>>

\* 2. git worktree add .worktrees/feat-{featureId} -b feat/{featureName}:
\* git refuses when the path or the branch exists.
AgentWorktreeAdd(a) ==
    LET id == agents[a].id IN
    /\ agents[a].pc = "add"
    /\ IF git[id].worktree \/ git[id].branch
       THEN /\ AgentStep(a, "add", "commit", GitFatal)
            /\ git' = git
       ELSE /\ AgentStep(a, "add", "commit", 0)
            /\ git' = [git EXCEPT ![id].worktree = TRUE, ![id].branch = TRUE]
    /\ UNCHANGED <<storeVars, moves>>

\* 3.-7. the changes and git add . && git commit, with the worktree as
\* working directory.
AgentCommit(a) ==
    LET id == agents[a].id IN
    /\ agents[a].pc = "commit"
    /\ AgentStep(a, "commit", "merge", IF git[id].worktree THEN 0 ELSE GitFatal)
    /\ UNCHANGED <<storeVars, git, moves>>

\* 8. git checkout main, git merge feat/{featureName}
AgentMerge(a) ==
    LET id == agents[a].id IN
    /\ agents[a].pc = "merge"
    /\ IF git[id].branch
       THEN /\ AgentStep(a, "merge", "remove", 0)
            /\ git' = [git EXCEPT ![id].merged = TRUE]
       ELSE /\ AgentStep(a, "merge", "remove", 1)
            /\ git' = git
    /\ UNCHANGED <<storeVars, moves>>

\* 8. git worktree remove .worktrees/feat-{featureId}: git refuses a path
\* that is not a working tree.
AgentWorktreeRemove(a) ==
    LET id == agents[a].id IN
    /\ agents[a].pc = "remove"
    /\ IF git[id].worktree
       THEN /\ AgentStep(a, "remove", "branch", 0)
            /\ git' = [git EXCEPT ![id].worktree = FALSE]
       ELSE /\ AgentStep(a, "remove", "branch", GitFatal)
            /\ git' = git
    /\ UNCHANGED <<storeVars, moves>>

\* 8. git branch -d feat/{featureName}: git refuses a branch that does not
\* exist, is checked out in a worktree or is not merged.
AgentBranchDelete(a) ==
    LET id == agents[a].id IN
    /\ agents[a].pc = "branch"
    /\ IF git[id].branch /\ ~git[id].worktree /\ git[id].merged
       THEN /\ AgentStep(a, "branch", "finish", 0)
            /\ git' = [git EXCEPT ![id].branch = FALSE]
       ELSE /\ AgentStep(a, "branch", "finish", 1)
            /\ git' = git
    /\ UNCHANGED <<storeVars, moves>>

\* 9. Update feature to "wait_approval"
AgentFinish(a) ==
    LET id == agents[a].id IN
    /\ agents[a].pc = "finish"
    /\ store' = [store EXCEPT ![id] = ApplyStatus(store[id], "wait_approval", now)]
    /\ agents' = [agents EXCEPT ![a].pc = "done"]
    /\ UNCHANGED <<now, procs, ops, last, acked, settled, git, moves>>

(* ----------------------- record write failures ------------------------ *)
\* How many write attempts in a row the file system fails.
MaxFaults == 2

\* A feature.json cut short by a write that failed after the file was opened
\* (fs.writeFile truncates, then writes): JSON.parse rejects it.
Torn == [id |-> Unset, torn |-> TRUE]

\* The file system failing no write.
NoFault == [failures |-> 0, torn |-> FALSE]

\* What the file system can do to a write: fail the next `failures` attempts,
\* before the file is opened or, torn, after it was truncated.
Faults ==
    {NoFault} \cup [failures : 1..MaxFaults, torn : BOOLEAN]

DiskInit == disk = NoFault

\* await fs.writeFile(featurePath, JSON.stringify(feature, null, 2), 'utf-8'):
\* the file afterwards and how the promise settles. One attempt is made; its
\* failure rejects with the file system's error.
WriteRecord(old, new, fault) ==
    IF fault.failures = 0
    THEN [record |-> new, error |-> "ok"]
    ELSE [record |-> IF fault.torn THEN Torn ELSE old, error |-> "EIO"]

\* updateFeatureStatus, start to end, on a file system that can fail the
\* write.
IOUpdate(id, status, fault) ==
    LET f   == LoadFeature(store, id)
        out == WriteRecord(f, ApplyStatus(f, status, now), fault)
    IN
    /\ ops < MaxOps
    /\ ops' = ops + 1
    /\ IF f = NoFeature
       THEN /\ last' = Result("update", "ENOENT", id)
            /\ UNCHANGED store
            /\ disk' = NoFault
       ELSE IF f = Torn
       THEN /\ last' = Result("update", "SyntaxError", id)
            /\ UNCHANGED store
            /\ disk' = NoFault
       ELSE /\ last' = Result("update", out.error, id)
            /\ store' = [store EXCEPT ![id] = out.record]
            /\ disk' = fault
    /\ UNCHANGED <<now, procs, acked, settled>>

(* --------------------------- specifications ---------------------------- *)
Init == StoreInit /\ GatewayInit /\ CmdInit /\ SessionInit /\ WorkInit /\ DiskInit

\* The invocation p is an updateFeatureStatus call whose write, in this
\* step, moves its task from in_progress to todo (the board's Cancel).
CancelBy(p) ==
    /\ procs[p].op \in {"update", "tool_update"}
    /\ procs[p].pc = "write"
    /\ procs'[p] = Idle
    /\ procs[p].status = "todo"
    /\ store[procs[p].id].status = "in_progress"
    /\ store'[procs[p].id].status = "todo"

\* The history of cancels: a cancel marks the mockAgentWork runs in flight
\* for its task; a run is unmarked when it ends.
TrackCancel ==
    cancelled' =
       { q \in Procs :
            /\ procs'[q].op = "mock"
            /\ \/ q \in cancelled
               \/ \E p \in Procs : CancelBy(p) /\ procs[q].op = "mock"
                                      /\ procs[q].id = procs[p].id }

\* A step of the feature store leaves the chat session and run_command alone.
StoreOnly == UNCHANGED <<gatewayVars, cmd, session, workVars, disk>> /\ TrackCancel

\* The handlers' steps, run in the invocation slots ps.
StoreNext(ps) ==
    \/ Tick /\ StoreOnly
    \/ \E p \in ps, data \in DataInputs : CreateStart(p, data) /\ StoreOnly
    \/ \E p \in ps : CreateWrite(p) /\ StoreOnly
    \/ \E p \in ps, id \in Ids, status \in StatusInputs : UpdateRead(p, id, status) /\ StoreOnly
    \/ \E p \in ps : UpdateWrite(p) /\ StoreOnly
    \/ \E p \in ps, id \in Ids : MockStart(p, id) /\ StoreOnly
    \/ \E p \in ps : MockLogWrite(p) /\ StoreOnly
    \/ \E p \in ps : MockLogRead(p) /\ StoreOnly
    \/ \E p \in ps : MockFinalRead(p) /\ StoreOnly
    \/ \E p \in ps : MockFinalWrite(p) /\ StoreOnly
    \/ \E p \in ps, id \in Ids, status \in Statuses : ToolUpdateList(p, id, status) /\ StoreOnly
    \/ \E p \in ps : ToolUpdateRead(p) /\ StoreOnly
    \/ \E p \in ps : ToolUpdateWrite(p) /\ StoreOnly

Next == StoreNext(Procs)

\* The feature store, its handlers interleaving at their awaits.
Spec == Init /\ [][Next]_vars

SeqNext == StoreNext({1})

\* The feature store, one request at a time: each handler runs to its end
\* before the next starts.
SpecSeq == Init /\ [][SeqNext]_vars

\* A step of the chat session leaves the feature store and run_command alone.
GatewayOnly == UNCHANGED <<storeVars, cmd, session, workVars, cancelled, disk>>

GatewayNext ==
    \/ \E tool \in ToolNames : \E input \in ToolInputs(tool) :
          RequestTool(tool, input) /\ GatewayOnly
    \/ \E approved \in BOOLEAN : RespondApproval(approved) /\ GatewayOnly
    \/ ExecuteTool /\ GatewayOnly
    \/ DenyTool /\ GatewayOnly

\* One chat session dispatching its tool calls.
SpecGateway == Init /\ [][GatewayNext]_vars

CmdNext ==
    /\ cmd = NoCmd
    /\ \E input \in CommandInputs, pr \in Processes, lag \in Lags :
          RunCommand(input, pr, lag)
          /\ UNCHANGED <<storeVars, gatewayVars, session, workVars, cancelled, disk>>

\* run_command invocations, over what the child process may do.
SpecCmd == Init /\ [][CmdNext]_vars

\* A feature that was created, moved to todo and then to in_progress, all
\* at time 1.
StartedFeature ==
    ApplyStatus(
       ApplyStatus(NewFeature(FeatureId(1), [title |-> "A", description |-> "B"], 1),
                   "todo", 1),
       "in_progress", 1)

\* The store with one feature in_progress and no handler running (ops
\* counts the invocations from here on).
CancelInit ==
    /\ now = 1
    /\ store = [i \in Ids |-> IF i = FeatureId(1) THEN StartedFeature ELSE NoFeature]
    /\ procs = [p \in Procs |-> Idle]
    /\ ops = 0
    /\ last = Result("update", "ok", FeatureId(1))
    /\ acked = [i \in Ids |-> IF i = FeatureId(1) THEN {StartedFeature.logs[k] : k \in 1..Len(StartedFeature.logs)} ELSE {}]
    /\ settled = [i \in Ids |-> IF i = FeatureId(1) THEN "in_progress" ELSE "none"]
    /\ cancelled = {}
    /\ GatewayInit /\ CmdInit /\ SessionInit /\ WorkInit /\ DiskInit

\* The board's Cancel and Start buttons and mockAgentWork, on that feature.
CancelNext ==
    \/ \E p \in Procs, status \in {"todo", "in_progress"} :
          UpdateRead(p, FeatureId(1), status) /\ StoreOnly
    \/ \E p \in Procs : UpdateWrite(p) /\ StoreOnly
    \/ \E p \in Procs : MockStart(p, FeatureId(1)) /\ StoreOnly
    \/ \E p \in Procs : MockLogWrite(p) /\ StoreOnly
    \/ \E p \in Procs : MockLogRead(p) /\ StoreOnly
    \/ \E p \in Procs : MockFinalRead(p) /\ StoreOnly
    \/ \E p \in Procs : MockFinalWrite(p) /\ StoreOnly

\* mockAgentWork and the board, from a feature that is in_progress.
SpecCancel == CancelInit /\ [][CancelNext]_vars

\* A step of the workflow leaves the chat session and run_command alone.
WorkOnly == UNCHANGED <<gatewayVars, cmd, session, cancelled, disk>>

WorkNext ==
    \/ \E data \in DataInputs : WorkCreate(data) /\ WorkOnly
    \/ \E id \in Ids, status \in Statuses : BoardMove(id, status) /\ WorkOnly
    \/ \E a \in Agents, id \in Ids : AgentStart(a, id) /\ WorkOnly
    \/ \E a \in Agents : AgentWorktreeAdd(a) /\ WorkOnly
    \/ \E a \in Agents : AgentCommit(a) /\ WorkOnly
    \/ \E a \in Agents : AgentMerge(a) /\ WorkOnly
    \/ \E a \in Agents : AgentWorktreeRemove(a) /\ WorkOnly
    \/ \E a \in Agents : AgentBranchDelete(a) /\ WorkOnly
    \/ \E a \in Agents : AgentFinish(a) /\ WorkOnly

\* Features on the board and agents implementing them by the workflow of
\* the system prompt, each handler running start to end.
SpecWork == Init /\ [][WorkNext]_vars

IOOnly == UNCHANGED <<gatewayVars, cmd, session, workVars, cancelled>>

IONext ==
    \/ Tick /\ IOOnly /\ UNCHANGED disk
    \/ \E data \in DataInputs : WorkCreate(data) /\ IOOnly /\ UNCHANGED disk
    \/ \E id \in Ids, status \in Statuses, fault \in Faults : IOUpdate(id, status, fault) /\ IOOnly

\* Features created and moved, each handler running start to end, on a file
\* system that can fail a record write.
SpecIO == Init /\ [][IONext]_vars

\* A step of the agent loop leaves everything else alone.
SessionOnly == UNCHANGED <<storeVars, gatewayVars, cmd, workVars, cancelled, disk>>

SessionNext ==
    \/ ReasonText /\ SessionOnly
    \/ ReasonToolCalls /\ SessionOnly
    \/ ToolsDone /\ SessionOnly
    \/ \E streamError \in BOOLEAN : CeilingStop(streamError) /\ SessionOnly

\* One chat request's agent loop.
SpecSession == Init /\ [][SessionNext]_vars

(* ===================== feature store: properties ======================= *)
Range(seq) == {seq[i] : i \in 1..Len(seq)}

IsPrefix(a, b) == Len(a) <= Len(b) /\ SubSeq(b, 1, Len(a)) = a

UpdateOps == {"update", "tool_update"}

\* The errors that say "there is no such feature": readFile's ENOENT and the
\* tool's `Feature with ID ... not found`.
NotFoundErrors == {"ENOENT", "not_found"}

\* This step is the write that ends a handler running op.
Writes(p, opset) == procs[p].op \in opset /\ procs[p].pc \in {"write", "final_write"} /\ procs'[p] = Idle

\* C1: a status transition succeeds only along one of the eight allowed
\* edges: every successful write of updateFeatureStatus (direct or through
\* the update_feature_status tool) that moves a record from one of the six
\* statuses to another of them takes it along an edge of AllowedEdges.
C1_OnlyAllowedEdges ==
    [][\A p \in Procs :
         LET from == store[procs[p].id].status
             to   == store'[procs[p].id].status
         IN  (Writes(p, UpdateOps) /\ from \in Statuses /\ to \in Statuses /\ to # from) =>
                <<from, to>> \in AllowedEdges]_storeVars

\* C2: each of startedAt, implementedAt, completedAt and rejectedAt is
\* written at most once: no step of updateFeatureStatus, addLog or
\* mockAgentWork changes a timestamp that already has a value.
C2_TimestampsWrittenOnce ==
    [][(\E p \in Procs : procs[p].op \in UpdateOps \cup {"mock"} /\ procs'[p] # procs[p]) =>
         \A id \in Ids :
           store[id] # NoFeature =>
             /\ store[id].startedAt # Unset => store'[id].startedAt = store[id].startedAt
             /\ store[id].implementedAt # Unset => store'[id].implementedAt = store[id].implementedAt
             /\ store[id].completedAt # Unset => store'[id].completedAt = store[id].completedAt
             /\ store[id].rejectedAt # Unset => store'[id].rejectedAt = store[id].rejectedAt]_storeVars

\* C5: the status of every persisted record is one of the six values,
\* whatever status value is passed to updateFeatureStatus.
C5_StatusIsOneOfSix ==
    \A id \in Ids : store[id] # NoFeature => store[id].status \in Statuses

\* C6: the activity log is append-only: in every step the log stored before
\* is a prefix of the log stored after.
C6_LogAppendOnly ==
    [][\A id \in Ids :
         store[id] # NoFeature =>
           /\ store'[id] # NoFeature
           /\ IsPrefix(store[id].logs, store'[id].logs)]_storeVars

Quiescent == \A p \in Procs : procs[p] = Idle

\* C7: concurrent mutations of one record serialize: once no handler is in
\* flight, the record holds every log entry whose write completed since the
\* record was created, and the status of the last completed status write.
C7_NoLostUpdate ==
    Quiescent =>
      \A id \in Ids :
        store[id] # NoFeature =>
          /\ acked[id] \subseteq Range(store[id].logs)
          /\ store[id].status = settled[id]

\* C8: a transition request for an id that has no record is rejected with a
\* not-found error; it creates no record and changes no record.  In every
\* step: a transition starts running only for an id that has a record; a
\* transition request that ends at once was for an id with no record, ended
\* with a not-found error and left the store as it was; and only
\* createFeature makes a record appear.
C8_UnknownIdRejected ==
    [][/\ \A p \in Procs :
            (procs[p] = Idle /\ procs'[p].op \in UpdateOps) =>
               store[procs'[p].id] # NoFeature
       /\ (ops' = ops + 1 /\ procs' = procs /\ last'.op \in UpdateOps) =>
            /\ last'.outcome \in NotFoundErrors
            /\ store[last'.id] = NoFeature
            /\ store' = store
       /\ \A id \in Ids :
            (store[id] = NoFeature /\ store'[id] # NoFeature) =>
               \E p \in Procs : procs[p].op = "create" /\ procs[p].id = id]_storeVars

\* A transition request for an unknown id was rejected while another
\* feature existed.
C8_Witness ==
    /\ last.op \in UpdateOps
    /\ last.outcome \in NotFoundErrors
    /\ store[last.id] = NoFeature
    /\ \E id \in Ids : store[id] # NoFeature

\* C21: createFeature(title, description) persists a record with status
\* backlog, the given title and description, none of startedAt,
\* implementedAt, completedAt, rejectedAt set and a log of exactly one
\* entry, and a listFeatures that follows returns that record.
C21_CreatePersistsBacklog ==
    [][\A p \in Procs :
          (procs[p].op = "create" /\ procs'[p] = Idle) =>
             LET f == store'[procs[p].id] IN
             /\ f # NoFeature
             /\ f.id = procs[p].id
             /\ f.status = "backlog"
             /\ f.title = procs[p].data.title
             /\ f.description = procs[p].data.description
             /\ f.startedAt = Unset /\ f.implementedAt = Unset
             /\ f.completedAt = Unset /\ f.rejectedAt = Unset
             /\ Len(f.logs) = 1
             /\ f \in ListFeatures(store')
             /\ last' = Result("create", "ok", f.id)]_storeVars

\* A createFeature call has returned and its record is the one stored.
C21_Witness ==
    /\ last = Result("create", "ok", last.id)
    /\ store[last.id] # NoFeature
    /\ store[last.id].status = "backlog"
    /\ Len(store[last.id].logs) = 1

\* Two timestamps that are both set are in order.
Ordered(a, b) == (a # Unset /\ b # Unset) => a <= b

\* C22: lifecycle timestamps are monotonic: in every record, those of
\* createdAt, startedAt, implementedAt, completedAt that are set are in that
\* order, and implementedAt is not after rejectedAt, for any sequence of
\* updateFeatureStatus calls.
C22_TimestampsMonotonic ==
    \A id \in Ids :
       store[id] # NoFeature =>
          LET f == store[id] IN
          /\ Ordered(f.createdAt, f.startedAt)
          /\ Ordered(f.createdAt, f.implementedAt)
          /\ Ordered(f.createdAt, f.completedAt)
          /\ Ordered(f.startedAt, f.implementedAt)
          /\ Ordered(f.startedAt, f.completedAt)
          /\ Ordered(f.implementedAt, f.completedAt)
          /\ Ordered(f.implementedAt, f.rejectedAt)

\* The invocation p, an updateFeatureStatus call (direct or through the
\* tool), does its write in this step.
UpdateWrites(p) ==
    procs[p].op \in UpdateOps /\ procs[p].pc = "write" /\ procs'[p] = Idle

\* C23: every successful status transition appends exactly one log entry:
\* a write that moves a record along one of the eight edges leaves the log
\* one entry longer than it was.
C23_OneLogEntryPerTransition ==
    [][\A p \in Procs :
          ( /\ UpdateWrites(p)
            /\ <<store[procs[p].id].status, store'[procs[p].id].status>> \in AllowedEdges ) =>
             /\ Len(store'[procs[p].id].logs) = Len(store[procs[p].id].logs) + 1
             /\ IsPrefix(store[procs[p].id].logs, store'[procs[p].id].logs)]_storeVars

\* The timestamp that records the entry into a status (Unset is never a
\* timestamp; the other statuses have none).
StateTimestamp(f) ==
    CASE f.status = "in_progress"   -> f.startedAt
      [] f.status = "wait_approval" -> f.implementedAt
      [] f.status = "done"          -> f.completedAt
      [] f.status = "rejected"      -> f.rejectedAt
      [] OTHER                      -> f.createdAt

\* C27: whenever a record's status is in_progress, wait_approval, done or
\* rejected, the timestamp of that state is set in the record, after any
\* steps of updateFeatureStatus and mockAgentWork.
C27_StateTimestampSet ==
    \A id \in Ids : store[id] # NoFeature => StateTimestamp(store[id]) # Unset

\* mockAgentWork has finished on a record that was then approved.
C27_Witness ==
    \E id \in Ids :
       /\ store[id] # NoFeature
       /\ store[id].metadata
       /\ store[id].status = "done"
       /\ store[id].implementedAt # Unset /\ store[id].completedAt # Unset

\* C28: createFeature never overwrites a record: the write of a create
\* finds no record under its id, and the records listFeatures returns are
\* one more after it.
C28_CreateNeverOverwrites ==
    [][\A p \in Procs :
          (procs[p].op = "create" /\ procs'[p] = Idle) =>
             /\ store[procs[p].id] = NoFeature
             /\ Cardinality(ListFeatures(store')) = Cardinality(ListFeatures(store)) + 1]_storeVars

\* C29: the update_feature_status tool's result is consistent with the
\* transition it performed: the oldStatus it reports is the status the
\* record had immediately before the write that set newStatus.
C29_OldStatusIsPrevious ==
    [][\A p \in Procs :
          (procs[p].op = "tool_update" /\ procs[p].pc = "write" /\ procs'[p] = Idle) =>
             /\ procs[p].old = store[procs[p].id].status
             /\ procs[p].feature.status = store'[procs[p].id].status]_storeVars

(* ======================= chat tools: properties ======================== *)
\* The tools the spec calls approval-gated in its scenario and in C3.
GatedTools == {"write_file", "edit_file"}

\* The spec's classification of the registered tools.
MutatingTools ==
    {"write_file", "edit_file", "run_command", "create_feature", "update_feature_status"}

InspectionTools == {"read_file", "list_files", "search_code", "list_features"}

CallsOk(cs, tools) ==
    \A i \in 1..Len(cs) :
       cs[i].tool \in tools =>
          /\ cs[i].ran => cs[i].approval = "approved"
          /\ cs[i].approval = "denied" => ~cs[i].ran /\ cs[i].result \in {"none", "denied"}

\* C3: a gated tool call (write_file, edit_file) has its side effect only
\* after its approval was answered with approved=true; answered with
\* approved=false it never runs and ends with a denial result, not an error.
\* In every step: a write_file or edit_file call that has run was approved, a
\* denied one has not run and ends as "denied", and a step of a gated call
\* changes the project file only when it runs the call after its approval.
C3_GatedAfterApproval ==
    [][/\ CallsOk(calls', GatedTools)
       /\ (file' # file /\ Active /\ calls[Len(calls)].tool \in GatedTools) =>
            /\ calls[Len(calls)].approval = "approved"
            /\ calls'[Len(calls)].ran]_vars

\* An approved write_file or edit_file call has written the file, and a
\* denied one has ended with a denial result.
C3_Witness ==
    /\ file.exists
    /\ \E i \in 1..Len(calls) :
          calls[i].tool \in GatedTools /\ calls[i].approval = "approved" /\ calls[i].ran
    /\ \E j \in 1..Len(calls) :
          calls[j].tool \in GatedTools /\ calls[j].approval = "denied" /\ calls[j].result = "denied"

\* C4: every mutating tool is approval-gated and every inspection tool is
\* auto-approved: no call of a mutating tool runs without an approval, and
\* no call of an inspection tool asks for one.
C4_MutatingToolsGated ==
    /\ CallsOk(calls, MutatingTools)
    /\ \A i \in 1..Len(calls) :
          calls[i].tool \in InspectionTools => calls[i].approval = "none"

(* ======================= run_command: properties ======================= *)
\* C9: a run_command invocation whose process exceeds the timeout returns,
\* without throwing, success=false with a timeout indicator: a result that
\* no invocation with the same input whose process did not time out (a
\* non-zero exit, a failure to spawn) can return.
C9_TimeoutIndicated ==
    (cmd.ran /\ TimesOut(cmd.process, cmd.input)) =>
       /\ ~cmd.result.threw
       /\ cmd.result.success = FALSE
       /\ \A pr \in Processes, lag \in Lags :
             ~TimesOut(pr, cmd.input) => RunCommandResult(cmd.input, pr, lag) # cmd.result

\* C10 as stated: a non-zero exit returns, without throwing, success=false,
\* the captured stdout and stderr and the numeric exit code; a zero exit
\* returns success=true with exitCode 0.
C10_ExitReported ==
    (cmd.ran /\ Exits(cmd.process, cmd.input)) =>
       /\ ~cmd.result.threw
       /\ cmd.result.exitCode = NumCode(cmd.process.exitCode)
       /\ cmd.result.success = (cmd.process.exitCode = 0)
       /\ cmd.process.exitCode # 0 =>
             /\ cmd.result.stdout = cmd.process.stdout
             /\ cmd.result.stderr = cmd.process.stderr

\* C10 amended: a non-zero exit returns, without throwing, success=false,
\* the captured stdout and stderr with the white space at both ends trimmed
\* (the error's message in place of a stderr that trims to nothing) and the
\* numeric exit code; a zero exit returns success=true with exitCode 0.
C10_ExitReportedTrimmed ==
    (cmd.ran /\ Exits(cmd.process, cmd.input)) =>
       /\ ~cmd.result.threw
       /\ cmd.result.exitCode = NumCode(cmd.process.exitCode)
       /\ cmd.result.success = (cmd.process.exitCode = 0)
       /\ cmd.process.exitCode # 0 =>
             /\ cmd.result.stdout = Trim(cmd.process.stdout)
             /\ cmd.result.stderr =
                   IF Trim(cmd.process.stderr) = <<>>
                   THEN FailedMessage(cmd.input, cmd.process.stderr)
                   ELSE Trim(cmd.process.stderr)

\* A command that wrote white space around its output, nothing but white
\* space to stderr, and exited with code 2 has returned its result.
C10_Witness ==
    /\ cmd.ran
    /\ Exits(cmd.process, cmd.input)
    /\ cmd.process.exitCode = 2
    /\ cmd.process.stdout = <<" ", "x">>
    /\ cmd.process.stderr = <<" ">>
    /\ cmd.result.success = FALSE

\* The working directory lies outside the feature's worktree.
Escapes(dir) == ~IsPrefix(SandboxRoot, Resolve(ProcessCwd, dir))

\* C11: the working directory of every executed command resolves inside the
\* owning sandbox root: a run_command call whose workingDir is an absolute
\* path, or a relative path that escapes the sandbox, is rejected (the result
\* is a failure) and no child process is started for it.
C11_WorkingDirContained ==
    cmd.ran /\ cmd.input.workingDir # <<>> /\ Escapes(cmd.input.workingDir) =>
       /\ ~cmd.process.spawns
       /\ ~cmd.result.success

\* C25: a command whose output exceeds the 10 MB cap is not failed for that:
\* when the child would exit with code 0 within the timeout, the result has
\* success = true (with the output cut at the cap and marked as truncated).
C25_OutputCapNotAFailure ==
    (/\ cmd.ran
     /\ cmd.process.spawns
     /\ cmd.process.bytes > MaxBuffer
     /\ cmd.process.exitCode = 0
     /\ cmd.process.runtime <= EffectiveTimeout(cmd.input)) =>
       cmd.result.success

\* C26: every move the board's buttons request is one of the eight allowed
\* edges, and the Done column offers no move: a board step never takes a
\* record along a pair outside AllowedEdges and never moves a done record.
\* The buttons cover seven of the eight edges: in_progress -> wait_approval
\* has no button.
C26_BoardWithinAllowedEdges ==
    [][moves' # moves =>
        /\ BoardButtons = AllowedEdges \ { <<"in_progress", "wait_approval">> }
        /\ \A id \in Ids :
              (store[id] # NoFeature /\ store'[id] # store[id]) =>
                 /\ <<store[id].status, store'[id].status>> \in AllowedEdges
                 /\ store[id].status # "done"]_vars

\* The board has moved a record that is now done.
C26_Witness ==
    /\ moves > 0
    /\ \E id \in Ids : store[id] # NoFeature /\ store[id].status = "done"

\* C26 as stated: the moves the buttons offer are exactly the eight allowed
\* edges, so that every allowed edge out of a record's status has a button.
C26_BoardOffersAllEdges ==
    \A id \in Ids : store[id] # NoFeature =>
        { e \in BoardButtons : e[1] = store[id].status }
            = { e \in AllowedEdges : e[1] = store[id].status }

\* This step is an updateFeatureStatus call on the record of id, a readable
\* record, whose write the file system treated as disk' says.
WritesRecord(id) ==
    /\ ops' = ops + 1
    /\ last'.op = "update" /\ last'.id = id
    /\ store[id] # NoFeature /\ store[id] # Torn

\* C24: a failing record write is retried once, so a transition whose first
\* write attempt alone fails succeeds; when the second attempt fails too the
\* transition reports IOError, and a transition that fails leaves the
\* persisted record exactly as it was before it (never a partial record).
C24_WriteRetriedThenAtomic ==
    [][\A id \in Ids : WritesRecord(id) =>
          /\ disk'.failures = 1 => last'.outcome = "ok"
          /\ disk'.failures >= 2 => last'.outcome = "IOError"
          /\ last'.outcome # "ok" => store'[id] = store[id]]_vars

(* ======================== file tools: properties ======================= *)
\* This step runs the server function of the call being dispatched, a call
\* of the given tool.
Runs(tool) ==
    /\ Active
    /\ calls[Len(calls)].tool = tool
    /\ ~calls[Len(calls)].ran
    /\ Len(calls') = Len(calls)
    /\ calls'[Len(calls)].ran

\* C12: edit_file with an oldContent that is not an exact substring of the
\* file's current content fails with the content-not-found error and leaves
\* the file as it was.
C12_UnmatchedEditRejected ==
    [][Runs("edit_file") /\ file.exists /\ ~Includes(file.content, pending.oldContent) =>
          /\ calls'[Len(calls)].result = "error"
          /\ calls'[Len(calls)].error = "Content not found"
          /\ file' = file]_vars

\* An edit_file call on an existing file has failed for unmatched content.
C12_Witness ==
    /\ file.exists
    /\ \E i \in 1..Len(calls) :
          /\ calls[i].tool = "edit_file" /\ calls[i].ran
          /\ calls[i].result = "error" /\ calls[i].error = "Content not found"

\* text with its first k occurrences of sub (left to right, without
\* overlap) replaced by new.
RECURSIVE ReplaceN(_, _, _, _)
ReplaceN(text, sub, new, k) ==
    IF k = 0 \/ ~Includes(text, sub)
    THEN text
    ELSE IF sub = <<>>
    THEN new \o (IF text = <<>>
                 THEN <<>>
                 ELSE <<Head(text)>> \o ReplaceN(Tail(text), sub, new, k - 1))
    ELSE LET i == IndexOf(text, sub)
         IN  SubSeq(text, 1, i - 1) \o new
                \o ReplaceN(SubSeq(text, i + Len(sub), Len(text)), sub, new, k - 1)

\* C13: the replacements count a successful edit_file reports is the number
\* of occurrences of oldContent that were substituted in the written file:
\* the written content is the old content with that many occurrences
\* replaced.
C13_ReplacementsCounted ==
    [][Runs("edit_file") /\ calls'[Len(calls)].result = "ok" =>
          file'.content =
             ReplaceN(file.content, pending.oldContent, Expand(pending.newContent),
                      calls'[Len(calls)].replacements)]_vars

\* text with the first occurrence of sub replaced by the text new as it is.
ReplaceLiteral(text, sub, new) ==
    LET i == IndexOf(text, sub)
    IN  SubSeq(text, 1, i - 1) \o new \o SubSeq(text, i + Len(sub), Len(text))

\* C14: edit round trip: after write_file(path, C), edit_file(path, O, N)
\* with O a substring of C succeeds and leaves the file's content equal to C
\* with that substring replaced by the literal text N, and read_file returns
\* exactly the file's content.
C14_EditRoundTrip ==
    [][/\ ( /\ Runs("edit_file")
            /\ Len(calls) >= 2
            /\ calls[Len(calls) - 1].tool = "write_file"
            /\ calls[Len(calls) - 1].ran
            /\ Includes(file.content, pending.oldContent) ) =>
             /\ calls'[Len(calls)].result = "ok"
             /\ file'.content =
                   ReplaceLiteral(file.content, pending.oldContent, pending.newContent)
       /\ Runs("read_file") /\ file.exists =>
             /\ calls'[Len(calls)].result = "ok"
             /\ calls'[Len(calls)].content = file.content
             /\ file' = file]_vars

\* The invocation the step is about to run is one the claim lists as
\* failing: read_file or edit_file on a missing file, edit_file with content
\* that is not in the file.
FailingInvocation ==
    \/ Runs("read_file") /\ ~file.exists
    \/ Runs("edit_file") /\ ~file.exists
    \/ Runs("edit_file") /\ file.exists /\ ~Includes(file.content, pending.oldContent)

C30_InspectionReadOnly ==
    [][(\E tool \in InspectionTools : Runs(tool)) => file' = file /\ store' = store]_vars

(* ========================= agent loop: properties ====================== *)
\* C15: every agent session ends with terminal text or, after at most 50
\* rounds of tool calls, is stopped by the round ceiling and reports an
\* IncompleteError to the operator; no session runs a 51st round.
C15_CeilingReported ==
    /\ session.round <= MaxIterations
    /\ session.phase = "ended" => session.outcome \in {"text", "ceiling"}
    /\ session.outcome = "ceiling" => session.shown = "IncompleteError"

(* ========================== workflow: properties ======================= *)
Known(id) == store[id] # NoFeature /\ store'[id] # NoFeature

\* The step moves the feature id along the edge from -> to.
Moves(id, from, to) ==
    Known(id) /\ store[id].status = from /\ store'[id].status = to

\* C16: the task branch is merged into the base branch only as the side
\* effect of wait_approval -> done, never while the task is in_progress or
\* wait_approval; a task that goes wait_approval -> rejected or
\* in_progress -> todo ends that step with its sandbox removed and its branch
\* never merged.
C16_MergeOnlyOnDone ==
    [][\A id \in Ids :
          /\ git'[id].merged /\ ~git[id].merged => Moves(id, "wait_approval", "done")
          /\ Moves(id, "wait_approval", "rejected") \/ Moves(id, "in_progress", "todo") =>
                ~git'[id].worktree /\ ~git'[id].merged]_vars

\* The agent a runs its workflow step pc in this step.
Does(a, pc) == agents[a].pc = pc /\ agents'[a].pc # pc

\* C17: at most one live sandbox per task id: a create for a task id that
\* has a sandbox fails and changes nothing, and a sandbox exists only while
\* its task is in_progress or wait_approval.
C17_OneSandboxWhileActive ==
    [][/\ \A a \in Agents :
             Does(a, "add") /\ git[agents[a].id].worktree =>
                ~agents'[a].result.success /\ git' = git
       /\ \A id \in Ids :
             git'[id].worktree =>
                /\ store'[id] # NoFeature
                /\ store'[id].status \in {"in_progress", "wait_approval"}]_vars

\* C18: sandbox removal is idempotent: removing the sandbox of a task id
\* that has none is a no-op that returns without error, and after a remove
\* the sandbox is gone, so that a second remove leaves the same state.
C18_RemoveIdempotent ==
    [][\A a \in Agents :
          Does(a, "remove") =>
             /\ ~git'[agents[a].id].worktree
             /\ ~git[agents[a].id].worktree =>
                   git' = git /\ agents'[a].result.success]_vars

(* ========================== cancel: properties ========================= *)
\* C19: cancelling a session because its task left in_progress
\* (in_progress -> todo) aborts the agent work in flight: after the cancel
\* the agent work for that task makes no further change to the task record,
\* in particular it does not move the task to wait_approval.
C19_CancelStopsAgent ==
    [][\A p \in cancelled :
          procs[p].op = "mock" /\ procs'[p] # procs[p] =>
             store'[procs[p].id] = store[procs[p].id]]_vars

====
